---------------------------- MODULE Spec2Model ----------------------------
(***************************************************************************)
(* A model of the prompt editor: the placeholder scanner parseVariables,   *)
(* the merger mergePrompt, the localStorage helpers, the completion client *)
(* callOpenAIApi and the PromptEditor component that wires them together.  *)
(*                                                                         *)
(* A JavaScript string is a sequence of one-character strings, so that     *)
(* scanning, matching and replacing are computed position by position as   *)
(* the regular expressions of the source do.                               *)
(***************************************************************************)
EXTENDS Integers, Sequences, FiniteSets, TLC

VARIABLES
    \* ---- PromptEditor component state (useState hooks, main.tsx 38-47)
    prompt,                 \* the template text
    variables,              \* PromptVariable[]: <<[name, value], ...>>
    variableValues,         \* Record<string,string>: own properties in enumeration order
    selectedModel,
    response,               \* ApiResponse | null
    loading,                \* the in-flight flag
    error,                  \* string | null
    savedPrompts,           \* SavedPrompt[]
    selectedSavedPromptId,
    newPromptName,
    \* ---- the environment of the component
    effectPending,          \* the [prompt] effect is scheduled and has not run yet
    inflight,               \* calls of callOpenAIApi awaiting their resolution
    localStorage,           \* the browser's key-value store: <<[key, item], ...>>
    uuidCounter,            \* ids handed out by uuidv4 so far
    events,                 \* the user events handled so far in this session
    savedSessions,          \* history: the text and the value mapping at each save
    \* ---- the pure functions, applied to drawn inputs
    pc,                     \* "editor", or "input" / "done" of a function application
    scanInput, scanResult,  \* parseVariables(scanInput)
    mergeTemplate, mergeValues, mergeResult,  \* mergePrompt(mergeTemplate, mergeValues)
    storeCall, storeResult, \* a call of a localStorageUtils function and what it gave
    apiCall, apiResult      \* callOpenAIApi and what axios.post came to, and what it gave

editorVars == <<prompt, variables, variableValues, selectedModel, response, loading,
                error, savedPrompts, selectedSavedPromptId, newPromptName,
                effectPending, inflight, localStorage, uuidCounter, events,
                savedSessions>>
scanVars == <<scanInput, scanResult>>
mergeVars == <<mergeTemplate, mergeValues, mergeResult>>
storeVars == <<storeCall, storeResult>>
apiVars == <<apiCall, apiResult>>
functionVars == <<pc, scanVars, mergeVars, storeVars, apiVars>>
vars == <<editorVars, functionVars>>

----------------------------------------------------------------------------
(* Bounds of the model *)

\* tokens concatenated into an input of parseVariables
MaxScanTokens == 5
\* tokens concatenated into a template given to mergePrompt
MaxMergeTokens == 3
\* user events (text edits, input changes, selections, clicks) in one session
MaxEvents == 6

----------------------------------------------------------------------------
(* Strings *)

Letters == {"a","b","c","d","e","f","g","h","i","j","k","l","m","n","o","p","q",
            "r","s","t","u","v","w","x","y","z",
            "A","B","C","D","E","F","G","H","I","J","K","L","M","N","O","P","Q",
            "R","S","T","U","V","W","X","Y","Z"}
Digits == {"0","1","2","3","4","5","6","7","8","9"}

\* the character class \w of a JavaScript regular expression: [A-Za-z0-9_]
IsWordChar(c) == c \in Letters \cup Digits \cup {"_"}

RECURSIVE Concat(_)
\* the concatenation of a sequence of strings
Concat(ss) == IF ss = <<>> THEN <<>> ELSE Head(ss) \o Concat(Tail(ss))

\* String.prototype.substring(from, to), 0-based, end exclusive
Substring(s, from, to) == SubSeq(s, from + 1, to)

\* does the string t occur in s at 1-based position i
OccursAt(s, t, i) == /\ i >= 1
                     /\ i + Len(t) - 1 <= Len(s)
                     /\ SubSeq(s, i, i + Len(t) - 1) = t

\* sequences over S of length at most n
SeqsUpTo(S, n) == UNION {[1..k -> S] : k \in 0..n}

----------------------------------------------------------------------------
(* parseVariables, promptUtils.ts 8-17 *)

RECURSIVE WordRun(_, _)
\* \w+ is greedy: the length of the run of word characters of s from position i
WordRun(s, i) == IF i <= Len(s) /\ IsWordChar(s[i]) THEN 1 + WordRun(s, i + 1) ELSE 0

\* a pattern that takes the empty braces {} for a placeholder too
variableRegexAllowingEmpty(s, i) ==
    IF s[i] # "{" THEN 0
    ELSE LET n == WordRun(s, i + 1)
         IN  IF i + n + 1 <= Len(s) /\ s[i + n + 1] = "}" THEN n + 2 ELSE 0

\* /{(\w+)}/ tried at position i of s: the length of the match, 0 when there is none.
\* A shorter run of \w cannot be followed by "}", so backtracking finds nothing more.
variableRegexAt(s, i) ==
    IF s[i] # "{" THEN 0
    ELSE LET n == WordRun(s, i + 1)
         IN  IF n >= 1 /\ i + n + 1 <= Len(s) /\ s[i + n + 1] = "}" THEN n + 2 ELSE 0

RECURSIVE StringMatchAll(_, _)
\* prompt.match(variableRegex) with the g flag: every match, left to right, each
\* search resuming where the match before it ended; <<>> stands for null
StringMatchAll(s, i) ==
    IF i > Len(s) THEN <<>>
    ELSE LET m == variableRegexAt(s, i)
         IN  IF m > 0 THEN <<SubSeq(s, i, i + m - 1)>> \o StringMatchAll(s, i + m)
             ELSE StringMatchAll(s, i + 1)

RECURSIVE ArrayFromSet(_, _)
\* Array.from(new Set(xs)): a Set keeps the first insertion of each element
ArrayFromSet(xs, seen) ==
    IF xs = <<>> THEN <<>>
    ELSE IF Head(xs) \in seen THEN ArrayFromSet(Tail(xs), seen)
         ELSE <<Head(xs)>> \o ArrayFromSet(Tail(xs), seen \cup {Head(xs)})

\* a parseVariables that forgets to remove the duplicates
parseVariablesKeepingDuplicates(p) ==
    LET matches == StringMatchAll(p, 1)
    IN  [k \in 1..Len(matches) |-> Substring(matches[k], 1, Len(matches[k]) - 1)]

parseVariables(p) ==
    LET matches == StringMatchAll(p, 1)
    IN  IF matches = <<>> THEN <<>>
        ELSE ArrayFromSet([k \in 1..Len(matches) |->
                              Substring(matches[k], 1, Len(matches[k]) - 1)], {})

----------------------------------------------------------------------------
(* JavaScript objects used as maps                                         *)
(*                                                                         *)
(* variableValues and the objects built from it are object literals: their *)
(* prototype is Object.prototype. An object is the sequence of its own     *)
(* properties [name, value] in creation order. A value is a string, or one *)
(* of the two values below.                                                *)

Undefined == <<"[[undefined]]">>

\* the members every object literal inherits from Object.prototype
constructor == <<"c","o","n","s","t","r","u","c","t","o","r">>
proto == <<"_","_","p","r","o","t","o","_","_">>
toString == <<"t","o","S","t","r","i","n","g">>
isPrototypeOf == <<"i","s","P","r","o","t","o","t","y","p","e","O","f">>
ObjectPrototypeNames == {
    constructor, proto, toString, isPrototypeOf,
    <<"v","a","l","u","e","O","f">>,
    <<"h","a","s","O","w","n","P","r","o","p","e","r","t","y">>,
    <<"p","r","o","p","e","r","t","y","I","s","E","n","u","m","e","r","a","b","l","e">>,
    <<"t","o","L","o","c","a","l","e","S","t","r","i","n","g">>,
    <<"_","_","d","e","f","i","n","e","G","e","t","t","e","r","_","_">>,
    <<"_","_","d","e","f","i","n","e","S","e","t","t","e","r","_","_">>,
    <<"_","_","l","o","o","k","u","p","G","e","t","t","e","r","_","_">>,
    <<"_","_","l","o","o","k","u","p","S","e","t","t","e","r","_","_">> }

\* the value of Object.prototype's member k: a function object, or for __proto__
\* (an accessor, read on an object literal) Object.prototype itself
Inherited(k) == <<"[[Object.prototype]]">> \o k

IsString(v) == v = <<>> \/ (v[1] # "[[Object.prototype]]" /\ v[1] # "[[undefined]]")

EmptyObject == <<>>

HasOwn(o, k) == \E i \in 1..Len(o) : o[i].name = k

\* o[k]: the own property, else the member inherited through the prototype
\* chain, else undefined
Get(o, k) ==
    IF HasOwn(o, k) THEN o[CHOOSE i \in 1..Len(o) : o[i].name = k].value
    ELSE IF k \in ObjectPrototypeNames THEN Inherited(k)
    ELSE Undefined

\* x || y: undefined and the empty string are falsy, every object is truthy
Or(x, y) == IF x = Undefined \/ x = <<>> THEN y ELSE x

\* x || ''
OrEmpty(x) == Or(x, <<>>)

\* CreateDataProperty: what a spread or a computed key of an object literal does
DefineOwn(o, k, v) ==
    IF HasOwn(o, k)
    THEN [i \in 1..Len(o) |-> IF o[i].name = k THEN [name |-> k, value |-> v] ELSE o[i]]
    ELSE Append(o, [name |-> k, value |-> v])

\* o[k] = v. An object without an own __proto__ reaches the setter of
\* Object.prototype.__proto__: it sets the prototype when v is an object (here
\* always Object.prototype again, which changes nothing) and ignores a string;
\* no own property is created either way. Any other inherited member is a
\* writable data property, so the assignment creates an own property.
Assign(o, k, v) ==
    IF k = proto /\ ~HasOwn(o, k) THEN o ELSE DefineOwn(o, k, v)

RECURSIVE ToNumber(_)
ToNumber(ds) ==
    IF ds = <<>> THEN 0
    ELSE ToNumber(SubSeq(ds, 1, Len(ds) - 1)) * 10
         + (CHOOSE d \in 0..9 : ToString(d) = ds[Len(ds)])

AllDigits(k) == k # <<>> /\ \A i \in 1..Len(k) : k[i] \in Digits

\* an array index: a canonical numeric string below 2^32 - 1
IsArrayIndex(k) == /\ AllDigits(k)
                   /\ (k[1] # "0" \/ Len(k) = 1)
                   /\ Len(k) <= 9

RECURSIVE SortByNumber(_)
SortByNumber(ks) ==
    IF ks = {} THEN <<>>
    ELSE LET least == CHOOSE k \in ks : \A j \in ks : ToNumber(k) <= ToNumber(j)
         IN  <<least>> \o SortByNumber(ks \ {least})

\* the keys of o in creation order
CreationOrder(o) == [i \in 1..Len(o) |-> o[i].name]

\* OrdinaryOwnPropertyKeys, the order of for-in: the array indices ascending,
\* then the other names in creation order
OwnKeys(o) ==
    SortByNumber({o[i].name : i \in {j \in 1..Len(o) : IsArrayIndex(o[j].name)}})
    \o SelectSeq(CreationOrder(o), LAMBDA k : ~IsArrayIndex(k))

\* the object as a mapping: its own names and the value of each
KeySet(o) == {o[i].name : i \in 1..Len(o)}
AsMapping(o) == [k \in KeySet(o) |-> Get(o, k)]

----------------------------------------------------------------------------
(* mergePrompt, promptUtils.ts 26-36 *)

\* the outcome of a call: its return value, or the exception it threw
Returned(value) == [threw |-> FALSE, value |-> value, exception |-> <<>>]
Threw(exception) == [threw |-> TRUE, value |-> <<>>, exception |-> exception]

\* new RegExp(`{${varName}}`, 'g') for a name of word characters: "{" followed
\* by digits and "}" is a quantifier with nothing to repeat, a SyntaxError; any
\* other name leaves both braces literal
RegExpThrows(varName) == AllDigits(varName)
RegExpSource(varName) == <<"{">> \o varName \o <<"}">>

RECURSIVE GetSubstitution(_, _, _, _)
\* the expansion of a replacement string for a match at position (1-based) of
\* str, the pattern having no capture groups: $$ $& $` $' are special
GetSubstitution(matched, str, position, r) ==
    IF r = <<>> THEN <<>>
    ELSE IF r[1] = "$" /\ Len(r) >= 2 /\ r[2] \in {"$", "&", "`", "'"}
    THEN (CASE r[2] = "$" -> <<"$">>
            [] r[2] = "&" -> matched
            [] r[2] = "`" -> SubSeq(str, 1, position - 1)
            [] r[2] = "'" -> SubSeq(str, position + Len(matched), Len(str)))
         \o GetSubstitution(matched, str, position, SubSeq(r, 3, Len(r)))
    ELSE <<r[1]>> \o GetSubstitution(matched, str, position, Tail(r))

\* a replace value that is a function is called with this = undefined and
\* (match, offset, string); these members of Object.prototype throw a TypeError
\* on ToObject(undefined)
ReplacerThrows(value) ==
    /\ ~IsString(value)
    /\ value # Undefined
    /\ value \notin {Inherited(constructor), Inherited(toString),
                     Inherited(isPrototypeOf), Inherited(proto)}

\* what one match is replaced by
Replacement(matched, str, position, value) ==
    CASE IsString(value) -> GetSubstitution(matched, str, position, value)
      \* Object(match) is a String object, converted back to the match
      [] value = Inherited(constructor) -> matched
      [] value = Inherited(toString) ->
            <<"[","o","b","j","e","c","t"," ","U","n","d","e","f","i","n","e","d","]">>
      \* isPrototypeOf(match): the argument is no object
      [] value = Inherited(isPrototypeOf) -> <<"f","a","l","s","e">>
      \* Object.prototype is not callable: ToString of it is the replacement
      [] value = Inherited(proto) ->
            <<"[","o","b","j","e","c","t"," ","O","b","j","e","c","t","]">>
      [] value = Undefined -> <<"u","n","d","e","f","i","n","e","d">>
      [] OTHER -> <<>>

RECURSIVE StringReplace(_, _, _, _)
\* merged.replace(regex, value) from position i on, regex matching the literal
\* text pat globally: left to right, the matches not overlapping
StringReplace(s, pat, value, i) ==
    IF i > Len(s) THEN <<>>
    ELSE IF OccursAt(s, pat, i)
    THEN Replacement(pat, s, i, value) \o StringReplace(s, pat, value, i + Len(pat))
    ELSE <<s[i]>> \o StringReplace(s, pat, value, i + 1)

Matches(s, pat) == \E i \in 1..Len(s) : OccursAt(s, pat, i)

RECURSIVE mergeLoop(_, _, _)
\* the for-in loop of mergePrompt over the names still to visit
mergeLoop(merged, variableValues_, names) ==
    IF names = <<>> THEN Returned(merged)
    ELSE LET varName == Head(names)
             value == Get(variableValues_, varName)
             regex == RegExpSource(varName)
         IN  IF RegExpThrows(varName) THEN Threw(<<"SyntaxError">>)
             ELSE IF ReplacerThrows(value) /\ Matches(merged, regex)
             THEN Threw(<<"TypeError">>)
             ELSE mergeLoop(StringReplace(merged, regex, value, 1),
                            variableValues_, Tail(names))

mergePrompt(prompt_, variableValues_) ==
    mergeLoop(prompt_, variableValues_, OwnKeys(variableValues_))

----------------------------------------------------------------------------
(* callOpenAIApi, unnamed/part_000 13-48 *)

Null == <<"[[null]]">>

\* what axios.post can come to: data on a 2xx response, or an error with a
\* response (non-2xx), with a request only (nothing came back), or with neither
\* (the request was never sent). message is the axios error's own message.
AxiosOutcomes == {
    [kind |-> "data", status |-> "200", bodyMessage |-> Undefined, message |-> <<>>],
    [kind |-> "response", status |-> "401", bodyMessage |-> <<"invalid key">>,
     message |-> <<"Request failed with status code 401">>],
    [kind |-> "response", status |-> "500", bodyMessage |-> Undefined,
     message |-> <<"Request failed with status code 500">>],
    [kind |-> "request", status |-> "", bodyMessage |-> Undefined,
     message |-> <<"Network Error">>],
    [kind |-> "setup", status |-> "", bodyMessage |-> Undefined,
     message |-> <<"Invalid URL">>] }

\* the ApiResponse a call for finalPrompt returns: opaque to the editor
ApiResponse == <<"ApiResponse">>

\* a callOpenAIApi that does not read the body of the response
callOpenAIApiWithoutBody(outcome) ==
    CASE outcome.kind = "data" -> Returned(ApiResponse)
      [] outcome.kind = "response" ->
            Threw(<<"API Error: ", outcome.status, " - ">> \o outcome.message)
      [] outcome.kind = "request" ->
            Threw(<<"API Error: No response received from server.">>)
      [] OTHER -> Threw(<<"API Error: ">> \o outcome.message)

callOpenAIApi(outcome) ==
    CASE outcome.kind = "data" -> Returned(ApiResponse)
      [] outcome.kind = "response" ->
            Threw(<<"API Error: ", outcome.status, " - ">>
                  \o Or(outcome.bodyMessage, outcome.message))
      [] outcome.kind = "request" ->
            Threw(<<"API Error: No response received from server.">>)
      [] OTHER -> Threw(<<"API Error: ">> \o outcome.message)

----------------------------------------------------------------------------
(* localStorageUtils.ts *)

\* LOCAL_STORAGE_PREFIX, main.tsx 30
LOCAL_STORAGE_PREFIX == "prompt-editor-save-"

\* JSON.stringify of a property value: a string is kept, a function-valued
\* property is left out, Object.prototype (no own enumerable property) gives {}
JSONValue(v) == IF IsString(v) THEN v
                ELSE IF v = Inherited(proto) THEN <<"[[{}]]">>
                ELSE Undefined

JSONStringify(saved) ==
    [id |-> saved.id, name |-> saved.name, prompt |-> saved.prompt,
     variables |-> [i \in 1..Len(saved.variables) |->
                      [name |-> saved.variables[i].name,
                       value |-> JSONValue(saved.variables[i].value)]]]

\* the keys of the store in the order Object.keys lists them
StoreKeyList(store) ==
    LET keys == {e.key : e \in store}
    IN  IF keys = {} THEN <<>>
        ELSE CHOOSE sq \in [1..Cardinality(keys) -> keys] :
                \A i, j \in 1..Cardinality(keys) : i < j => sq[i][2] < sq[j][2]

\* a getAllLocalStorageKeys without its try and catch
getAllLocalStorageKeysUncaught(store, keysThrows) ==
    IF keysThrows THEN Threw(<<"SecurityError">>) ELSE Returned(StoreKeyList(store))

\* getAllLocalStorageKeys(): Object.keys(localStorage), or [] when that throws
\* (storage disabled), which is caught and logged
getAllLocalStorageKeys(store, keysThrows) ==
    IF keysThrows THEN Returned(<<>>) ELSE Returned(StoreKeyList(store))

\* loadFromLocalStorage(key): the item parsed back, or null when there is no
\* item or when getItem or JSON.parse throws, which is caught and logged.
\* null is <<>> here and a loaded item is <<item>>.
loadFromLocalStorage(store, key, getItemThrows) ==
    IF getItemThrows \/ ~\E e \in store : e.key = key THEN <<>>
    ELSE <<(CHOOSE e \in store : e.key = key).item>>

\* removeFromLocalStorage(key): removeItem removes the item, or throws, which is
\* caught and logged: nothing is removed
removeFromLocalStorage(store, key, removeItemThrows) ==
    IF removeItemThrows THEN store ELSE {e \in store : e.key # key}

\* saveToLocalStorage(key, data): setItem stores the item, or throws (quota
\* exceeded, storage disabled), which is caught and logged: nothing is stored
saveToLocalStorage(store, key, data, setItemThrows) ==
    IF setItemThrows THEN store
    ELSE {e \in store : e.key # key} \cup {[key |-> key, item |-> JSONStringify(data)]}

----------------------------------------------------------------------------
(* PromptEditor, main.tsx 37-291 *)

\* uuidv4(): an id no earlier call returned
uuidv4(counter) == counter + 1

\* '' as the selected id
NoSelection == 0

IsWhiteSpace(c) == c \in {" ", "\t", "\n"}

\* a trim that leaves the string as it is
TrimKeepingSpaces(s) == s

RECURSIVE TrimStart(_)
TrimStart(s) == IF s # <<>> /\ IsWhiteSpace(Head(s)) THEN TrimStart(Tail(s)) ELSE s
RECURSIVE TrimEnd(_)
TrimEnd(s) == IF s # <<>> /\ IsWhiteSpace(s[Len(s)])
              THEN TrimEnd(SubSeq(s, 1, Len(s) - 1)) ELSE s
\* String.prototype.trim
Trim(s) == TrimEnd(TrimStart(s))

RECURSIVE AssignAll(_, _)
\* forEach over [name, value] entries, assigning each into the object o
AssignAll(o, entries) ==
    IF entries = <<>> THEN o
    ELSE AssignAll(Assign(o, Head(entries).name, Head(entries).value), Tail(entries))

\* the body of the [prompt] effect, lines 71-83: the new variables and the new
\* variableValues, computed from the prompt and the variableValues of the render
\* that scheduled the effect
newVariables(prompt_, variableValues_) ==
    LET newVariableNames == parseVariables(prompt_)
    IN  [i \in 1..Len(newVariableNames) |->
            [name |-> newVariableNames[i],
             value |-> OrEmpty(Get(variableValues_, newVariableNames[i]))]]

updatedVariableValues(prompt_, variableValues_) ==
    AssignAll(EmptyObject, newVariables(prompt_, variableValues_))

\* ---- what the user can enter

\* the texts typed into the prompt Textarea
Templates == {
    <<>>,
    <<"{","a","}">>,
    <<"{","a","}"," ","{","b","}">>,
    <<"{","b","}">>,
    <<"{","1","}">>,
    <<"{">> \o constructor \o <<"}">>,
    <<"{">> \o proto \o <<"}">> }

\* the texts typed into a variable's Input
Values == { <<>>, <<"1">> }

\* the texts typed into the name Input
PromptNames == { <<" ">>, <<"n"," ">> }

\* the options of the model Select, lines 264-266
Models == {"gpt-4o", "gpt-4", "gpt-3.5-turbo"}

\* what an earlier session and another application left in the browser's store:
\* a prompt saved under the id 1, and an item that is not the editor's
EarlierSessionStore ==
    { [key |-> <<LOCAL_STORAGE_PREFIX, 1>>,
       item |-> JSONStringify([id |-> 1, name |-> <<"n">>, prompt |-> <<"{","a","}">>,
                               variables |-> <<[name |-> <<"a">>, value |-> <<"1">>]>>])],
      [key |-> <<"theme", 0>>,
       item |-> [id |-> 0, name |-> <<>>, prompt |-> <<>>, variables |-> <<>>]] }

\* ---- the initial render: useState's initial values, lines 38-47; initialPrompt
\* defaults to '' and main.tsx passes none; both effects are still to run
ComponentInit ==
    /\ prompt = <<>>
    /\ variables = <<>>
    /\ variableValues = EmptyObject
    /\ selectedModel = "gpt-4o"
    /\ response = Null
    /\ loading = FALSE
    /\ error = Null
    /\ savedPrompts = <<>>
    /\ selectedSavedPromptId = NoSelection
    /\ newPromptName = <<>>
    /\ effectPending = "mount"
    /\ inflight = <<>>
    /\ events = 0
    /\ savedSessions = <<>>

\* the editor opened for the first time: nothing is stored
EditorInit == ComponentInit /\ localStorage = {} /\ uuidCounter = 0

\* the editor opened over the store an earlier session left
EditorInitOverStore == ComponentInit /\ localStorage = EarlierSessionStore /\ uuidCounter = 1

\* the editor's state while a function application is checked
\* React runs the effects of a render before it handles the next event: no
\* handler runs while an effect is pending
Settled == pc = "editor" /\ effectPending = "none"

\* a handler called for a user event, within the session's bound
UserEvent == Settled /\ events < MaxEvents /\ events' = events + 1

\* the body of the mount effect after the listing, lines 54-62: the items under
\* the prefix that load, in the order of the keys; failingKeys are the keys
\* whose getItem or JSON.parse throws
loadedPrompts(store, keys, failingKeys) ==
    LET prefixed == SelectSeq(keys, LAMBDA key : key[1] = LOCAL_STORAGE_PREFIX)
    IN  Concat([i \in 1..Len(prefixed) |->
                  loadFromLocalStorage(store, prefixed[i], prefixed[i] \in failingKeys)])

\* the [] effect, lines 52-64; what fails in the storage is the browser's choice.
\* An exception that left the effect would unmount the editor, React having no
\* error boundary to hand it to (main.tsx 8-16).
MountEffect ==
    \E keysThrows \in BOOLEAN, failingKeys \in SUBSET {e.key : e \in localStorage} :
        LET keys == getAllLocalStorageKeys(localStorage, keysThrows)
        IN  IF keys.threw
            THEN /\ effectPending' = "crashed"
                 /\ UNCHANGED <<savedPrompts, variables, variableValues>>
            ELSE /\ savedPrompts' = loadedPrompts(localStorage, keys.value, failingKeys)
                 /\ variables' = newVariables(prompt, variableValues)
                 /\ variableValues' = updatedVariableValues(prompt, variableValues)
                 /\ effectPending' = "none"

\* the effects scheduled by the last render run: on mount the [] effect (lines
\* 52-64) and the [prompt] effect, afterwards the [prompt] effect (lines 70-85)
RunEffects ==
    /\ pc = "editor"
    /\ \/ effectPending = "mount" /\ MountEffect
       \/ /\ effectPending = "prompt"
          /\ variables' = newVariables(prompt, variableValues)
          /\ variableValues' = updatedVariableValues(prompt, variableValues)
          /\ effectPending' = "none"
          /\ UNCHANGED savedPrompts
    /\ UNCHANGED <<functionVars, savedSessions,
                   prompt, selectedModel, response, loading, error,
                   selectedSavedPromptId, newPromptName, inflight, localStorage,
                   uuidCounter, events>>

\* a text change that gives up the call in flight
ChangePromptCancellingRun(text) ==
    /\ UserEvent
    /\ text # prompt
    /\ prompt' = text
    /\ effectPending' = "prompt"
    /\ loading' = FALSE
    /\ inflight' = <<>>
    /\ UNCHANGED <<functionVars, savedSessions,
                   variables, variableValues, selectedModel, response, error,
                   savedPrompts, selectedSavedPromptId, newPromptName,
                   localStorage, uuidCounter>>

\* Textarea onChange, line 193: setPrompt(e.target.value)
ChangePrompt(text) ==
    /\ UserEvent
    /\ text # prompt
    /\ prompt' = text
    /\ effectPending' = "prompt"
    /\ UNCHANGED <<functionVars, savedSessions,
                   variables, variableValues, selectedModel, response, loading, error,
                   savedPrompts, selectedSavedPromptId, newPromptName, inflight,
                   localStorage, uuidCounter>>

\* lines 113-115, called by the Input of a rendered variable, line 210
handleVariableInputChange(variableName, value) ==
    /\ UserEvent
    /\ variableValues' = DefineOwn(variableValues, variableName, value)
    /\ UNCHANGED <<functionVars, savedSessions,
                   prompt, variables, selectedModel, response, loading, error,
                   savedPrompts, selectedSavedPromptId, newPromptName, effectPending,
                   inflight, localStorage, uuidCounter>>

\* Input onChange, line 226
setNewPromptName(name) ==
    /\ UserEvent
    /\ newPromptName' = name
    /\ UNCHANGED <<functionVars, savedSessions,
                   prompt, variables, variableValues, selectedModel, response, loading,
                   error, savedPrompts, selectedSavedPromptId, effectPending, inflight,
                   localStorage, uuidCounter>>

\* Select onChange, line 260
setSelectedModel(model) ==
    /\ UserEvent
    /\ model # selectedModel
    /\ selectedModel' = model
    /\ UNCHANGED <<functionVars, savedSessions,
                   prompt, variables, variableValues, response, loading, error,
                   savedPrompts, selectedSavedPromptId, newPromptName, effectPending,
                   inflight, localStorage, uuidCounter>>

\* the SavedPrompt built by handleSavePrompt, lines 127-132
newSavedPrompt(id) ==
    [id |-> id,
     name |-> Trim(newPromptName),
     prompt |-> prompt,
     variables |-> [i \in 1..Len(variables) |->
                      [name |-> variables[i].name,
                       value |-> OrEmpty(Get(variableValues, variables[i].name))]]]

\* a save that replaces the entry saved under the same name
savedPromptsReplacingSameName(saved) ==
    IF \E i \in 1..Len(savedPrompts) : savedPrompts[i].name = saved.name
    THEN [i \in 1..Len(savedPrompts) |->
            IF savedPrompts[i].name = saved.name THEN saved ELSE savedPrompts[i]]
    ELSE Append(savedPrompts, saved)

\* setSavedPrompts(prev => [...prev, newSavedPrompt]), line 136
savedPromptsAfterSave(saved) == Append(savedPrompts, saved)

\* lines 121-138; setItemThrows is the browser's choice
handleSavePrompt ==
    /\ UserEvent
    /\ IF Trim(newPromptName) = <<>>
       THEN UNCHANGED <<savedPrompts, newPromptName, localStorage, uuidCounter,
                        savedSessions>>
       ELSE \E setItemThrows \in BOOLEAN :
            LET id == uuidv4(uuidCounter)
                saved == newSavedPrompt(id)
                storageKey == <<LOCAL_STORAGE_PREFIX, id>>
            IN  /\ uuidCounter' = id
                /\ localStorage' =
                     saveToLocalStorage(localStorage, storageKey, saved, setItemThrows)
                /\ savedPrompts' = savedPromptsAfterSave(saved)
                /\ newPromptName' = <<>>
                /\ savedSessions' = Append(savedSessions,
                        [id |-> id, prompt |-> prompt, variableValues |-> variableValues])
    /\ UNCHANGED <<functionVars, prompt, variables, variableValues, selectedModel, response, loading,
                   error, selectedSavedPromptId, effectPending, inflight>>

\* a handleLoadPrompt that empties the text when it finds no saved prompt
handleLoadPromptClearingText(savedPromptId) ==
    /\ UserEvent
    /\ savedPrompts # <<>>
    /\ savedPromptId # selectedSavedPromptId
    /\ LET found == {i \in 1..Len(savedPrompts) : savedPrompts[i].id = savedPromptId}
       IN  IF found # {}
           THEN LET promptToLoad == savedPrompts[CHOOSE i \in found : \A j \in found : i <= j]
                IN  /\ prompt' = promptToLoad.prompt
                    /\ variableValues' = AssignAll(EmptyObject, promptToLoad.variables)
                    /\ selectedSavedPromptId' = savedPromptId
                    /\ effectPending' = IF promptToLoad.prompt # prompt THEN "prompt"
                                        ELSE "none"
           ELSE /\ selectedSavedPromptId' = NoSelection
                /\ prompt' = <<>>
                /\ effectPending' = IF prompt # <<>> THEN "prompt" ELSE "none"
                /\ UNCHANGED variableValues
    /\ UNCHANGED <<functionVars, savedSessions,
                   variables, selectedModel, response, loading, error, savedPrompts,
                   newPromptName, inflight, localStorage, uuidCounter>>

\* lines 145-159, called by the Select of the saved prompts, shown when there is
\* one (line 235); a Select fires onChange when another option is chosen
handleLoadPrompt(savedPromptId) ==
    /\ UserEvent
    /\ savedPrompts # <<>>
    /\ savedPromptId # selectedSavedPromptId
    /\ LET found == {i \in 1..Len(savedPrompts) : savedPrompts[i].id = savedPromptId}
       IN  IF found # {}
           THEN LET promptToLoad == savedPrompts[CHOOSE i \in found : \A j \in found : i <= j]
                IN  /\ prompt' = promptToLoad.prompt
                    /\ variableValues' = AssignAll(EmptyObject, promptToLoad.variables)
                    /\ selectedSavedPromptId' = savedPromptId
                    /\ effectPending' = IF promptToLoad.prompt # prompt THEN "prompt"
                                        ELSE "none"
           ELSE /\ selectedSavedPromptId' = NoSelection
                /\ UNCHANGED <<prompt, variableValues, effectPending>>
    /\ UNCHANGED <<functionVars, savedSessions,
                   variables, selectedModel, response, loading, error, savedPrompts,
                   newPromptName, inflight, localStorage, uuidCounter>>

\* a Run button that is never disabled
RunButtonAlwaysEnabled == TRUE

\* the Run button, line 269: disabled={loading}
RunButtonEnabled == ~loading

\* a run that leaves the error of the run before it on display
startRunKeepingError ==
    /\ loading' = TRUE
    /\ error' = error
    /\ response' = Null

\* lines 92-94: setLoading(true); setError(null); setResponse(null)
startRun ==
    /\ loading' = TRUE
    /\ error' = Null
    /\ response' = Null

\* lines 91-99, up to the await: the three state updates, the merge, the call.
\* A mergePrompt that throws rejects the promise of handleRunPrompt before the
\* try block is entered: the updates made so far stay, and nothing else runs.
handleRunPrompt ==
    /\ UserEvent
    /\ RunButtonEnabled
    /\ startRun
    /\ LET finalPrompt == mergePrompt(prompt, variableValues)
       IN  inflight' = IF finalPrompt.threw THEN inflight
                       ELSE Append(inflight, [prompt |-> finalPrompt.value,
                                              model |-> selectedModel])
    /\ UNCHANGED <<functionVars, savedSessions,
                   prompt, variables, variableValues, selectedModel, savedPrompts,
                   selectedSavedPromptId, newPromptName, effectPending, localStorage,
                   uuidCounter>>

\* lines 99-105, after the await: a call in flight comes back with an outcome
ResolveRun(i, outcome) ==
    /\ Settled
    /\ i \in 1..Len(inflight)
    /\ LET apiResponse == callOpenAIApi(outcome)
       IN  /\ response' = IF apiResponse.threw THEN response ELSE apiResponse.value
           /\ error' = IF apiResponse.threw THEN apiResponse.exception ELSE error
    /\ loading' = FALSE
    /\ inflight' = [j \in 1..(Len(inflight) - 1) |->
                      IF j < i THEN inflight[j] ELSE inflight[j + 1]]
    /\ UNCHANGED <<functionVars, savedSessions,
                   prompt, variables, variableValues, selectedModel, savedPrompts,
                   selectedSavedPromptId, newPromptName, effectPending, localStorage,
                   uuidCounter, events>>

\* lines 164-184, called by the Export button, line 272: disabled={!response}.
\* The handler hands a file with the prompt, the values, the model and the
\* response to the browser and sets no state of the component.
handleExportJson ==
    /\ UserEvent
    /\ response # Null
    /\ UNCHANGED <<functionVars, savedSessions,
                   prompt, variables, variableValues, selectedModel, response, loading,
                   error, savedPrompts, selectedSavedPromptId, newPromptName,
                   effectPending, inflight, localStorage, uuidCounter>>

\* ---- the events of a session

EditPrompt == \E text \in Templates : ChangePrompt(text)

EditVariable ==
    \E variableName \in {variables[i].name : i \in 1..Len(variables)}, value \in Values :
        handleVariableInputChange(variableName, value)

EditName == \E name \in PromptNames : setNewPromptName(name)

SelectModel == \E model \in Models : setSelectedModel(model)

SelectSavedPrompt ==
    \E savedPromptId \in {NoSelection} \cup {savedPrompts[i].id : i \in 1..Len(savedPrompts)} :
        handleLoadPrompt(savedPromptId)

CallReturns == \E i \in 1..Len(inflight), outcome \in AxiosOutcomes : ResolveRun(i, outcome)

\* no function of localStorageUtils is applied on its own
StoreIdle ==
    /\ storeCall = [op |-> "keys", store |-> {}, key |-> <<LOCAL_STORAGE_PREFIX, 1>>,
                    throws |-> FALSE]
    /\ storeResult = [outcome |-> Returned(<<>>), store |-> {}]

\* callOpenAIApi is not applied on its own
ApiIdle ==
    /\ apiCall = [prompt |-> <<>>, model |-> "gpt-4o",
                  outcome |-> [kind |-> "data", status |-> "200",
                               bodyMessage |-> Undefined, message |-> <<>>]]
    /\ apiResult = Returned(<<>>)

FunctionsIdle ==
    /\ scanInput = <<>> /\ scanResult = <<>>
    /\ mergeTemplate = <<>> /\ mergeValues = EmptyObject /\ mergeResult = Returned(<<>>)
    /\ StoreIdle
    /\ ApiIdle

Init == pc = "editor" /\ (EditorInit \/ EditorInitOverStore) /\ FunctionsIdle

Next ==
    \/ RunEffects
    \/ EditPrompt
    \/ EditVariable
    \/ EditName
    \/ SelectModel
    \/ handleSavePrompt
    \/ SelectSavedPrompt
    \/ handleRunPrompt
    \/ handleExportJson
    \/ CallReturns

Spec == Init /\ [][Next]_vars

----------------------------------------------------------------------------
(* handleLoadPrompt applied to any id, in drawn renders of the editor *)

\* the ids handed to handleLoadPrompt: '', the ids of the saved prompts, and an
\* id no saved prompt has
LoadIds == {NoSelection, 1, 2, 3}

\* the records two saves left: one of a text with a variable, one of the empty text
LoadRecords ==
    << [id |-> 1, name |-> <<"n">>, prompt |-> <<"{","a","}">>,
        variables |-> <<[name |-> <<"a">>, value |-> <<"1">>]>>],
       [id |-> 2, name |-> <<"n">>, prompt |-> <<>>, variables |-> <<>>] >>

\* a render of the editor after one or two saves, with its effects run: the
\* saved prompts are in the list and in the store, one of them or none is
\* selected, and the variables and the value mapping are those of the text
InitLoad ==
    /\ pc = "editor"
    /\ FunctionsIdle
    /\ \E n \in 1..Len(LoadRecords) :
          /\ savedPrompts = SubSeq(LoadRecords, 1, n)
          /\ localStorage = {[key |-> <<LOCAL_STORAGE_PREFIX, LoadRecords[i].id>>,
                               item |-> JSONStringify(LoadRecords[i])] : i \in 1..n}
          /\ uuidCounter = n
          /\ selectedSavedPromptId \in {NoSelection} \cup {LoadRecords[i].id : i \in 1..n}
    /\ prompt \in { <<>>, <<"{","a","}">>, <<"{","b","}">> }
    /\ \E value \in Values :
          LET typed == AssignAll(EmptyObject, <<[name |-> <<"a">>, value |-> value],
                                               [name |-> <<"b">>, value |-> value]>>)
          IN  /\ variables = newVariables(prompt, typed)
              /\ variableValues = updatedVariableValues(prompt, typed)
    /\ selectedModel = "gpt-4o"
    /\ response = Null
    /\ loading = FALSE
    /\ error = Null
    /\ newPromptName = <<>>
    /\ effectPending = "none"
    /\ inflight = <<>>
    /\ events = 0
    /\ savedSessions = <<>>

LoadAnyId == \E savedPromptId \in LoadIds : handleLoadPrompt(savedPromptId)

NextLoad == LoadAnyId

SpecLoad == InitLoad /\ [][NextLoad]_vars

----------------------------------------------------------------------------
(* parseVariables applied to drawn inputs *)

ScanTokens == { <<"{">>, <<"}">>, <<"a">>, <<"-">>,
                <<"{","a","}">>, <<"{","b","}">>, <<"{","a","1","}">> }

ScanInputs == {Concat(ts) : ts \in SeqsUpTo(ScanTokens, MaxScanTokens)}

InitScan ==
    /\ pc = "input"
    /\ scanInput \in ScanInputs
    /\ scanResult = <<>>
    /\ mergeTemplate = <<>> /\ mergeValues = EmptyObject /\ mergeResult = Returned(<<>>)
    /\ StoreIdle
    /\ ApiIdle
    /\ EditorInit

ApplyParseVariables ==
    /\ pc = "input"
    /\ scanResult' = parseVariables(scanInput)
    /\ pc' = "done"
    /\ UNCHANGED <<editorVars, scanInput, mergeVars, storeVars, apiVars>>

NextScan == ApplyParseVariables

SpecScan == InitScan /\ [][NextScan]_vars

----------------------------------------------------------------------------
(* mergePrompt applied to drawn inputs *)

MergeTokens == { <<"{">>, <<"}">>, <<"x">>, <<"{","a","}">>, <<"{","b","}">> }

MergeTemplates == {Concat(ts) : ts \in SeqsUpTo(MergeTokens, MaxMergeTokens)}

\* the keys are names parseVariables can return
MergeKeys == { <<"a">>, <<"b">>, <<"1">> }

MergeValues == { <<>>, <<"x">>, <<"b">>, <<"{","b","}">>, <<"$","&">> }

\* the objects with keys among MergeKeys, in every creation order
MergeObjects ==
    {o \in UNION {[1..k -> [name : MergeKeys, value : MergeValues]] :
                     k \in 0..Cardinality(MergeKeys)} :
        \A i, j \in 1..Len(o) : i # j => o[i].name # o[j].name}

InitMerge ==
    /\ pc = "input"
    /\ mergeTemplate \in MergeTemplates
    /\ mergeValues \in MergeObjects
    /\ mergeResult = Returned(<<>>)
    /\ scanInput = <<>> /\ scanResult = <<>>
    /\ StoreIdle
    /\ ApiIdle
    /\ EditorInit

ApplyMergePrompt ==
    /\ pc = "input"
    /\ mergeResult' = mergePrompt(mergeTemplate, mergeValues)
    /\ pc' = "done"
    /\ UNCHANGED <<editorVars, scanVars, mergeTemplate, mergeValues, storeVars, apiVars>>

NextMerge == ApplyMergePrompt

SpecMerge == InitMerge /\ [][NextMerge]_vars

----------------------------------------------------------------------------
(* the functions of localStorageUtils applied to drawn inputs *)

StoreOps == {"save", "load", "remove", "keys"}

\* keys under the prefix of the editor, and a key of another application
StoreKeys == { <<LOCAL_STORAGE_PREFIX, 1>>, <<LOCAL_STORAGE_PREFIX, 2>>, <<"theme", 0>> }

\* the SavedPrompt kept under a key
StoredPrompt(key) ==
    [id |-> key[2], name |-> <<"n">>, prompt |-> <<"{","a","}">>,
     variables |-> <<[name |-> <<"a">>, value |-> <<"1">>]>>]

Stores == SUBSET {[key |-> k, item |-> JSONStringify(StoredPrompt(k))] : k \in StoreKeys}

\* what the caller of the function gets back: the four functions catch every
\* exception; save and remove are void
StoreCallReturns(call) ==
    CASE call.op = "save" -> Returned(Undefined)
      [] call.op = "remove" -> Returned(Undefined)
      [] call.op = "load" -> Returned(loadFromLocalStorage(call.store, call.key, call.throws))
      [] OTHER -> getAllLocalStorageKeys(call.store, call.throws)

\* the store after the call
StoreAfterCall(call) ==
    CASE call.op = "save" ->
            saveToLocalStorage(call.store, call.key, StoredPrompt(call.key), call.throws)
      [] call.op = "remove" -> removeFromLocalStorage(call.store, call.key, call.throws)
      [] OTHER -> call.store

InitStore ==
    /\ pc = "input"
    /\ storeCall \in [op : StoreOps, store : Stores, key : StoreKeys, throws : BOOLEAN]
    /\ storeResult = [outcome |-> Returned(<<>>), store |-> {}]
    /\ ApiIdle
    /\ scanInput = <<>> /\ scanResult = <<>>
    /\ mergeTemplate = <<>> /\ mergeValues = EmptyObject /\ mergeResult = Returned(<<>>)
    /\ EditorInit

ApplyStoreFunction ==
    /\ pc = "input"
    /\ storeResult' = [outcome |-> StoreCallReturns(storeCall),
                       store |-> StoreAfterCall(storeCall)]
    /\ pc' = "done"
    /\ UNCHANGED <<editorVars, scanVars, mergeVars, storeCall, apiVars>>

NextStore == ApplyStoreFunction

SpecStore == InitStore /\ [][NextStore]_vars

----------------------------------------------------------------------------
(* callOpenAIApi applied to drawn inputs *)

ApiStatuses == {"400", "401", "403", "404", "429", "500", "503"}

\* error.response.data?.error?.message: absent, empty, or a message of the API
ApiBodyMessages == {Undefined, <<>>, <<"invalid key">>, <<"rate limit reached">>}

\* error.message of an axios error without a response
ApiErrorMessages == { <<"Network Error">>, <<"timeout exceeded">>, <<"Invalid URL">> }

ApiOutcomes ==
    {[kind |-> "data", status |-> "200", bodyMessage |-> Undefined, message |-> <<>>]}
    \cup {[kind |-> "response", status |-> st, bodyMessage |-> m,
           message |-> <<"Request failed with status code ", st>>] :
             st \in ApiStatuses, m \in ApiBodyMessages}
    \cup {[kind |-> k, status |-> "", bodyMessage |-> Undefined, message |-> msg] :
             k \in {"request", "setup"}, msg \in ApiErrorMessages}

InitApi ==
    /\ pc = "input"
    /\ apiCall \in [prompt : {<<>>, <<"x">>}, model : Models, outcome : ApiOutcomes]
    /\ apiResult = Returned(<<>>)
    /\ scanInput = <<>> /\ scanResult = <<>>
    /\ mergeTemplate = <<>> /\ mergeValues = EmptyObject /\ mergeResult = Returned(<<>>)
    /\ StoreIdle
    /\ EditorInit

ApplyCallOpenAIApi ==
    /\ pc = "input"
    /\ apiResult' = callOpenAIApi(apiCall.outcome)
    /\ pc' = "done"
    /\ UNCHANGED <<editorVars, scanVars, mergeVars, storeVars, apiCall>>

NextApi == ApplyCallOpenAIApi

SpecApi == InitApi /\ [][NextApi]_vars

----------------------------------------------------------------------------
(* The claims *)

Range(sq) == {sq[i] : i \in 1..Len(sq)}

\* the names of the Variable Set of a template text
VariableSet(text) == Range(parseVariables(text))

\* a mapping restricted to the names in S
Restrict(f, S) == [k \in (DOMAIN f) \cap S |-> f[k]]

\* the step is the [prompt] effect running
EffectRuns == effectPending \in {"mount", "prompt"} /\ effectPending' = "none"

\* no name of the text is a member of Object.prototype
NoInheritedName(text) == VariableSet(text) \cap ObjectPrototypeNames = {}

\* what C1 asks of the step of the effect
Reconciled ==
    /\ KeySet(variableValues') = VariableSet(prompt)
    /\ \A k \in VariableSet(prompt) :
         Get(variableValues', k) = IF k \in KeySet(variableValues)
                                   THEN Get(variableValues, k) ELSE <<>>

\* C1: when the effect of a text change has run, the keys of the value mapping
\* are the names of the new text, a name that was a key keeps its value, and a
\* new name has the empty string
C1_EffectReconciles == [][EffectRuns => Reconciled]_vars

\* C1 for the texts that name no member of Object.prototype
C1_EffectReconcilesOtherNames ==
    [][EffectRuns /\ NoInheritedName(prompt) => Reconciled]_vars

\* C2: the keys of the value mapping are always among the names of the text,
\* and are exactly those names once the effect of the last change has run
C2_KeysWithinVariableSet ==
    /\ KeySet(variableValues) \subseteq VariableSet(prompt)
    /\ effectPending = "none" => KeySet(variableValues) = VariableSet(prompt)

\* C2 once the effect has run, for the texts that name no member of Object.prototype
C2_KeysAreVariableSetOtherNames ==
    effectPending = "none" /\ NoInheritedName(prompt) =>
        KeySet(variableValues) = VariableSet(prompt)

\* C3: at most one completion call is outstanding in every reachable state, and
\* no call of the Completion Client is issued while the in-flight flag is set
C3_AtMostOneCallInFlight ==
    /\ [](Len(inflight) <= 1)
    /\ [][Len(inflight') > Len(inflight) => ~loading]_vars

\* a run is in flight and the Run button refuses another
C3_Witness == loading /\ Len(inflight) = 1 /\ ~RunButtonEnabled /\ events < MaxEvents

\* C4: no run leaves the in-flight flag set although no call is outstanding
C4_LoadingOnlyWhileCallOutstanding == loading => inflight # <<>>

\* the step is the return of the call of a run
RunSettles == Len(inflight') < Len(inflight)

\* the step is a run that ends without making its call
RunAborts == ~loading /\ loading' /\ Len(inflight') = Len(inflight)

\* exactly one of response and error is set after the step
OneOfResponseAndError ==
    \/ response' # Null /\ error' = Null
    \/ response' = Null /\ error' # Null

\* C5: response and error are never both set, and a run that has ended leaves
\* exactly one of them set, the response on success and the error on failure
C5_ResponseAndErrorExclusive ==
    /\ [](~(response # Null /\ error # Null))
    /\ [][RunSettles \/ RunAborts => OneOfResponseAndError]_vars

\* C5 for the runs that make their call: never both set, and exactly one set
\* when the call has returned
C5_ExclusiveWhenCallSettles ==
    /\ [](~(response # Null /\ error # Null))
    /\ [][RunSettles => OneOfResponseAndError]_vars

\* the step is handleLoadPrompt finding the saved prompt it was asked for
LoadFinds ==
    /\ selectedSavedPromptId' # selectedSavedPromptId
    /\ selectedSavedPromptId' # NoSelection

\* the value mapping a load leaves once the effect it scheduled, if any, has run
RestoredValues ==
    IF effectPending' = "prompt" THEN updatedVariableValues(prompt', variableValues')
    ELSE variableValues'

\* what C6 asks of the load of a prompt saved in session at
RoundTrip(at) ==
    /\ prompt' = at.prompt
    /\ AsMapping(RestoredValues) =
         Restrict(AsMapping(at.variableValues), VariableSet(at.prompt))

\* C6: loading a saved prompt by its id restores the text it was saved with and
\* the value mapping it was saved with, restricted to the names of that text
C6_SaveLoadRoundTrip ==
    [][LoadFinds =>
         \A i \in 1..Len(savedSessions) :
            savedSessions[i].id = selectedSavedPromptId' => RoundTrip(savedSessions[i])]_vars

\* C6 for the saved texts that name no member of Object.prototype
C6_SaveLoadRoundTripOtherNames ==
    [][LoadFinds =>
         \A i \in 1..Len(savedSessions) :
            /\ savedSessions[i].id = selectedSavedPromptId'
            /\ NoInheritedName(savedSessions[i].prompt)
            => RoundTrip(savedSessions[i])]_vars

\* C7: a save appends one record whose id no saved record has, and no step
\* changes or removes a saved record, in the list or in the store
C7_SavedPromptsImmutable ==
    [][/\ Len(savedPrompts') >= Len(savedPrompts)
       /\ \A i \in 1..Len(savedPrompts) : savedPrompts'[i] = savedPrompts[i]
       /\ Len(savedPrompts') > Len(savedPrompts) =>
            /\ Len(savedPrompts') = Len(savedPrompts) + 1
            /\ \A i \in 1..Len(savedPrompts) :
                 savedPrompts[i].id # savedPrompts'[Len(savedPrompts')].id
       /\ localStorage \subseteq localStorage']_vars

\* a prompt was saved again under the same name
C7_Witness ==
    /\ Len(savedSessions) = 2
    /\ Len(savedPrompts) = 2
    /\ savedPrompts[1].name = savedPrompts[2].name
    /\ savedPrompts[1].id # savedPrompts[2].id

\* does a placeholder {<word>} start at position i of s
PlaceholderAt(s, i) ==
    /\ s[i] = "{"
    /\ \E n \in 1..Len(s) :
         /\ i + n + 1 <= Len(s)
         /\ \A k \in 1..n : IsWordChar(s[i + k])
         /\ s[i + n + 1] = "}"

\* the first position at which {name} occurs in s
FirstAppearance(s, name) ==
    CHOOSE i \in 1..Len(s) :
        /\ OccursAt(s, <<"{">> \o name \o <<"}">>, i)
        /\ \A j \in 1..(i - 1) : ~OccursAt(s, <<"{">> \o name \o <<"}">>, j)

\* C8: parseVariables(s) has no duplicate, holds exactly the names of the
\* placeholders of s, in the order of their first appearance, and is empty when
\* s has no placeholder
C8_ParseVariablesDistinctInOrder ==
    pc = "done" =>
        /\ \A i, j \in 1..Len(scanResult) : i # j => scanResult[i] # scanResult[j]
        /\ \A i \in 1..Len(scanResult) :
             /\ scanResult[i] # <<>>
             /\ \E p \in 1..Len(scanInput) :
                  OccursAt(scanInput, <<"{">> \o scanResult[i] \o <<"}">>, p)
        /\ \A p \in 1..Len(scanInput) :
             PlaceholderAt(scanInput, p) =>
                \E i \in 1..Len(scanResult) :
                    OccursAt(scanInput, <<"{">> \o scanResult[i] \o <<"}">>, p)
        /\ \A i, j \in 1..Len(scanResult) :
             i < j => FirstAppearance(scanInput, scanResult[i])
                        < FirstAppearance(scanInput, scanResult[j])
        /\ (\A p \in 1..Len(scanInput) : ~PlaceholderAt(scanInput, p)) => scanResult = <<>>

\* {a}-{b}-{a} was scanned
C8_Witness ==
    /\ pc = "done"
    /\ scanInput = <<"{","a","}","-","{","b","}","-","{","a","}">>
    /\ scanResult = << <<"a">>, <<"b">> >>

\* the length of the placeholder {<word>} that starts at position i of s, 0 when
\* none does
TokenLength(s, i) ==
    IF PlaceholderAt(s, i)
    THEN 2 + CHOOSE n \in 1..Len(s) :
                 /\ i + n + 1 <= Len(s)
                 /\ \A k \in 1..n : IsWordChar(s[i + k])
                 /\ s[i + n + 1] = "}"
    ELSE 0

RECURSIVE SinglePass(_, _, _)
\* one pass over t from position i: a placeholder whose name is a key of the
\* mapping v becomes the value of that key, every other character is kept, and
\* what was put in is not read again
SinglePass(t, v, i) ==
    IF i > Len(t) THEN <<>>
    ELSE LET n == TokenLength(t, i)
             k == SubSeq(t, i + 1, i + n - 2)
         IN  IF n > 0 /\ k \in DOMAIN v THEN v[k] \o SinglePass(t, v, i + n)
             ELSE <<t[i]>> \o SinglePass(t, v, i + 1)

\* the object o without the keys outside S
RestrictObject(o, S) == SelectSeq(o, LAMBDA e : e.name \in S)

\* C9: what mergePrompt(t, v) returns is the single pass over t that puts v[k]
\* for each placeholder {k} with k a key of v and reads no value it has put in
C9_MergeIsSinglePass ==
    pc = "done" /\ ~mergeResult.threw =>
        mergeResult.value = SinglePass(mergeTemplate, AsMapping(mergeValues), 1)

\* C10: mergePrompt(t, v) raises no error and equals mergePrompt of t and v
\* restricted to the names of t
C10_OtherKeysInert ==
    pc = "done" =>
        /\ ~mergeResult.threw
        /\ mergeResult = mergePrompt(mergeTemplate,
                            RestrictObject(mergeValues, VariableSet(mergeTemplate)))

RECURSIVE UnmatchedTokens(_, _, _)
\* the placeholders of t from position i on whose name is no key of the object
\* o, in the order of t
UnmatchedTokens(t, o, i) ==
    IF i > Len(t) THEN <<>>
    ELSE LET n == TokenLength(t, i)
         IN  IF n = 0 THEN UnmatchedTokens(t, o, i + 1)
             ELSE IF HasOwn(o, SubSeq(t, i + 1, i + n - 2))
                  THEN UnmatchedTokens(t, o, i + n)
                  ELSE <<SubSeq(t, i, i + n - 1)>> \o UnmatchedTokens(t, o, i + n)

RECURSIVE EmbedsInOrder(_, _, _)
\* the tokens occur in out from position i on, one after the other in their order
EmbedsInOrder(tokens, out, i) ==
    IF tokens = <<>> THEN TRUE
    ELSE LET at == {p \in i..Len(out) : OccursAt(out, Head(tokens), p)}
         IN  /\ at # {}
             /\ LET first == CHOOSE p \in at : \A q \in at : p <= q
                IN  EmbedsInOrder(Tail(tokens), out, first + Len(Head(tokens)))

\* the placeholders of the template without a key are in the returned text
UnmatchedSurvive ==
    EmbedsInOrder(UnmatchedTokens(mergeTemplate, mergeValues, 1), mergeResult.value, 1)

\* C11: mergePrompt(t, v) is a text in which every placeholder of t whose name
\* is no key of v stands verbatim, in the order of t; mergePrompt(t, {}) is t
C11_UnmatchedPlaceholdersSurvive ==
    pc = "done" =>
        /\ ~mergeResult.threw
        /\ UnmatchedSurvive
        /\ mergeValues = EmptyObject => mergeResult.value = mergeTemplate

\* C11 for the calls that return
C11_UnmatchedSurviveWhenReturned ==
    pc = "done" /\ ~mergeResult.threw =>
        /\ UnmatchedSurvive
        /\ mergeValues = EmptyObject => mergeResult.value = mergeTemplate

\* {a}x{b} was merged with a value for a only
C11_ReturnedCase ==
    /\ pc = "done"
    /\ mergeTemplate = <<"{","a","}","x","{","b","}">>
    /\ mergeValues = <<[name |-> <<"a">>, value |-> <<"x">>]>>
    /\ mergeResult = Returned(<<"x","x","{","b","}">>)

\* the objects with the properties of o, created in every order
Reorderings(o) ==
    {[i \in 1..Len(o) |-> o[f[i]]] :
        f \in {g \in [1..Len(o) -> 1..Len(o)] : \A i, j \in 1..Len(o) : i # j => g[i] # g[j]}}

\* C12: the order in which the keys of the mapping are applied does not change
\* the result of mergePrompt: the same properties created in another order give
\* the same outcome
C12_KeyOrderIndependent ==
    pc = "done" =>
        \A o \in Reorderings(mergeValues) : mergePrompt(mergeTemplate, o) = mergeResult

\* no value of the object o holds a brace, hence no placeholder
NoBraceInValues(o) ==
    \A i \in 1..Len(o) : \A p \in 1..Len(o[i].value) : o[i].value[p] \notin {"{", "}"}

\* C13: when no value holds brace syntax, merging the returned text again with
\* the same mapping returns it unchanged
C13_MergeIdempotent ==
    pc = "done" /\ ~mergeResult.threw /\ NoBraceInValues(mergeValues) =>
        mergePrompt(mergeResult.value, mergeValues) = mergeResult

\* C14: mergePrompt returns a string, without raising, for every template and
\* every mapping whose keys are names the scanner can produce
C14_MergeNeverFails ==
    pc = "done" => ~mergeResult.threw /\ IsString(mergeResult.value)

\* C14 in the editor: a run that starts issues its completion call
C14_RunIssuesCall ==
    [][~loading /\ loading' => Len(inflight') = Len(inflight) + 1]_vars

\* the same call of the store function, the storage working
WithoutFailure(call) == [call EXCEPT !.throws = FALSE]

\* C15: a store function whose storage operation fails does not throw, and what
\* it returns differs from what the same call returns when the storage works
C15_StoreFailureSurfaced ==
    pc = "done" /\ storeCall.throws =>
        /\ ~storeResult.outcome.threw
        /\ storeResult.outcome # StoreCallReturns(WithoutFailure(storeCall))

\* C15, its first half: no store function throws, and a failed operation leaves
\* the store as it was
C15_StoreFailureCaught ==
    pc = "done" /\ storeCall.throws =>
        /\ ~storeResult.outcome.threw
        /\ storeResult.store = storeCall.store

\* the items of the store under the prefix of the editor
EditorItems(store) == {e \in store : e.key[1] = LOCAL_STORAGE_PREFIX}

\* the step is a save whose storage write failed: a record came into the list
\* and none into the store
SaveFails == Len(savedPrompts') > Len(savedPrompts) /\ localStorage' = localStorage

\* the step is the mount effect with a failed listing or load: the list has
\* fewer records than the store has items of the editor
ListingFails ==
    /\ effectPending = "mount" /\ effectPending' # "mount"
    /\ Len(savedPrompts') < Cardinality(EditorItems(localStorage))

\* the handlers can run, and the controls that were enabled still are
ControlsStayEnabled ==
    /\ effectPending' = "none"
    /\ RunButtonEnabled => RunButtonEnabled'
    /\ savedPrompts # <<>> => savedPrompts' # <<>>

\* C16: a save or an initial listing whose storage operation fails leaves the
\* text, the variables and the value mapping as they were, and the editor's
\* actions enabled
C16_StoreFailureKeepsSession ==
    [][SaveFails \/ ListingFails =>
         /\ prompt' = prompt
         /\ variables' = variables
         /\ variableValues' = variableValues
         /\ ControlsStayEnabled]_vars

\* the listing failed at mount and a later save failed too: the prompt of the
\* earlier session is in the store and not in the list, the new one is in the
\* list and not in the store, and the variables were edited in between
C16_Witness ==
    /\ localStorage = EarlierSessionStore
    /\ Len(savedPrompts) = 1 /\ savedPrompts[1].id = 2
    /\ variableValues # EmptyObject
    /\ effectPending = "none"

\* the pieces of text occur in the message, next to each other
Contains(message, pieces) == \E i \in 1..Len(message) : OccursAt(message, pieces, i)

\* C17: callOpenAIApi returns the data of a 2xx response; otherwise it returns
\* nothing and throws one failure: for a non-2xx response a message with the
\* status code and the message of the body, for no response the no-response
\* message, for a failure before dispatch the setup message; the messages of
\* different kinds differ
C17_FailureKindsDistinguished ==
    pc = "done" =>
        LET o == apiCall.outcome
        IN  /\ o.kind = "data" => apiResult = Returned(ApiResponse)
            /\ o.kind # "data" => apiResult.threw /\ apiResult.value = <<>>
            /\ o.kind = "response" =>
                 /\ Contains(apiResult.exception, <<o.status>>)
                 /\ IsString(o.bodyMessage) => Contains(apiResult.exception, o.bodyMessage)
            /\ o.kind = "request" =>
                 apiResult.exception = <<"API Error: No response received from server.">>
            /\ o.kind = "setup" => apiResult.exception = <<"API Error: ">> \o o.message
            /\ \A other \in ApiOutcomes :
                 o.kind # "data" /\ other.kind \notin {"data", o.kind} =>
                    callOpenAIApi(other).exception # apiResult.exception

\* a 401 with the body message "invalid key" was turned into its failure
C17_Witness ==
    /\ pc = "done"
    /\ apiCall.outcome.kind = "response" /\ apiCall.outcome.status = "401"
    /\ apiCall.outcome.bodyMessage = <<"invalid key">>
    /\ apiResult = Threw(<<"API Error: ", "401", " - ", "invalid key">>)

\* the name of the placeholder that starts at position i of s
NameAt(s, i) == SubSeq(s, i + 1, i + TokenLength(s, i) - 2)

\* the placeholder that starts at position i of s stands in braces of its own:
\* {{name}}
NestedAt(s, i) ==
    /\ PlaceholderAt(s, i)
    /\ i > 1 /\ s[i - 1] = "{"
    /\ i + TokenLength(s, i) <= Len(s) /\ s[i + TokenLength(s, i)] = "}"

\* the brace forms of s are malformed ones only: no {<word>} stands in s except
\* nested in braces of its own
OnlyMalformedBraceForms(s) == \A i \in 1..Len(s) : PlaceholderAt(s, i) => NestedAt(s, i)

\* C18: parseVariables(s) is empty for every s whose only brace forms are an
\* unmatched brace, empty braces, nested braces, or a braced name with a
\* character that is no word character
C18_MalformedBracesIgnored ==
    pc = "done" /\ OnlyMalformedBraceForms(scanInput) => scanResult = <<>>

\* C18 as the scanner has it: an unmatched brace, empty braces and a braced name
\* with a character that is no word character give no name, and nested braces
\* give the name of the placeholder inside them
C18_MalformedIgnoredNestedMatched ==
    pc = "done" =>
        /\ (\A i \in 1..Len(scanInput) : ~PlaceholderAt(scanInput, i)) => scanResult = <<>>
        /\ \A i \in 1..Len(scanInput) :
             NestedAt(scanInput, i) => NameAt(scanInput, i) \in Range(scanResult)
        /\ \A k \in 1..Len(scanResult) :
             \E i \in 1..Len(scanInput) :
                PlaceholderAt(scanInput, i) /\ NameAt(scanInput, i) = scanResult[k]

\* {}{{a}} was scanned: nothing for the empty braces, a for the nested ones
C18_Witness ==
    /\ pc = "done"
    /\ scanInput = <<"{","}","{","{","a","}","}">>
    /\ scanResult = << <<"a">> >>

\* C19: while loading is set, no step but the return of the call clears it or
\* drops the call in flight, and the return of the call clears it and leaves its
\* outcome in response or error
C19_InFlightCallNotAborted ==
    [][/\ loading /\ ~RunSettles => loading' /\ inflight' = inflight
       /\ RunSettles => /\ ~loading'
                        /\ Len(inflight') = Len(inflight) - 1
                        /\ OneOfResponseAndError]_vars

\* the call made for the empty text is still in flight after the text, a value
\* and the model were changed
C19_Witness ==
    /\ loading /\ Len(inflight) = 1
    /\ inflight[1].prompt = <<>>
    /\ prompt = <<"{","a","}">>
    /\ variableValues = <<[name |-> <<"a">>, value |-> <<"1">>]>>
    /\ selectedModel # inflight[1].model
    /\ effectPending = "none"

\* the record is in the store under the prefix and its id, with its content as
\* JSON.stringify writes it
Persisted(saved, store) ==
    [key |-> <<LOCAL_STORAGE_PREFIX, saved.id>>, item |-> JSONStringify(saved)] \in store

SavedListPersisted(list, store) ==
    \A i \in 1..Len(list) : Persisted(list[i], store)

\* C20: every record of the in-memory list of saved prompts is stored under
\* 'prompt-editor-save-' + id with the same content, in every reachable state,
\* also after a save whose storage write failed
C20_SavedListIsPersisted == SavedListPersisted(savedPrompts, localStorage)

\* the part of C20 that holds: a step that is not a save with a failed write
\* keeps the list within the store
C20_PersistedUnlessSaveFails ==
    [][SavedListPersisted(savedPrompts, localStorage) /\ ~SaveFails
         => SavedListPersisted(savedPrompts', localStorage')]_vars

\* the name is empty or has white space only
BlankName(s) == \A i \in 1..Len(s) : IsWhiteSpace(s[i])

\* t is s without the white space at its two ends
IsTrimOf(t, s) ==
    /\ t # <<>> /\ ~IsWhiteSpace(t[1]) /\ ~IsWhiteSpace(t[Len(t)])
    /\ \E i \in 0..Len(s) :
          /\ i + Len(t) <= Len(s)
          /\ SubSeq(s, i + 1, i + Len(t)) = t
          /\ BlankName(SubSeq(s, 1, i))
          /\ BlankName(SubSeq(s, i + Len(t) + 1, Len(s)))

\* C21: a save pressed while the entered name is empty or white space only
\* writes nothing to the store and leaves the saved list, the text, the value
\* mapping and the entered name as they are; a save with another name puts one
\* record with the trimmed name at the end of the list, writes no item with
\* another name, and clears the name field
C21_SaveRequiresName ==
    [][handleSavePrompt =>
         IF BlankName(newPromptName)
         THEN UNCHANGED <<localStorage, savedPrompts, prompt, variableValues, newPromptName>>
         ELSE /\ Len(savedPrompts') = Len(savedPrompts) + 1
              /\ SubSeq(savedPrompts', 1, Len(savedPrompts)) = savedPrompts
              /\ IsTrimOf(savedPrompts'[Len(savedPrompts')].name, newPromptName)
              /\ \A e \in localStorage' \ localStorage : IsTrimOf(e.item.name, newPromptName)
              /\ newPromptName' = <<>>]_vars

\* a name with white space at its end was saved in this session and written
\* to the store trimmed, and a name of white space is now in the name field
C21_Witness ==
    /\ Len(savedSessions) = 1
    /\ savedPrompts[Len(savedPrompts)].id = savedSessions[1].id
    /\ savedPrompts[Len(savedPrompts)].name = <<"n">>
    /\ \E e \in localStorage :
          e.key = <<LOCAL_STORAGE_PREFIX, savedSessions[1].id>> /\ e.item.name = <<"n">>
    /\ newPromptName = <<" ">>
    /\ effectPending = "none"

\* the saved list has a record with the id
InSavedList(id) == \E i \in 1..Len(savedPrompts) : savedPrompts[i].id = id

\* C22: handleLoadPrompt called with an id that no record of the saved list
\* has, the empty selection included, leaves the text and the value mapping as
\* they are and changes nothing but the selection, which it clears; called with
\* the id of a record it sets the selection to that id
C22_LoadOfAbsentIdHasNoEffect ==
    [][\A id \in LoadIds :
         handleLoadPrompt(id) =>
            IF InSavedList(id)
            THEN selectedSavedPromptId' = id
            ELSE /\ selectedSavedPromptId' = NoSelection
                 /\ UNCHANGED <<prompt, variables, variableValues, selectedModel, response,
                                loading, error, savedPrompts, newPromptName, effectPending,
                                inflight, localStorage, uuidCounter>>]_vars

\* one call was made and cleared the selection: its id was in no record; the
\* text and the value typed for its variable are still there
C22_Witness ==
    /\ events = 1
    /\ selectedSavedPromptId = NoSelection
    /\ prompt = <<"{","b","}">>
    /\ variableValues = <<[name |-> <<"b">>, value |-> <<"1">>]>>
    /\ Len(savedPrompts) = 2
    /\ effectPending = "none"

============================================================================
